---- MODULE Spec2Model ----
(***************************************************************************)
(* PocketFlow engine of chart-agent: the node lifecycle (prep/exec/post),  *)
(* the retry wrapper of NodeImpl._exec and the transition driver            *)
(* BaseFlow.run.  One step of the model is one synchronous segment of the   *)
(* TypeScript code, from one await to the next.                             *)
(***************************************************************************)
EXTENDS Integers, Sequences, FiniteSets, TLC

(* ---------------------------- bounds ----------------------------------- *)
NumNodes == 2
MaxRetriesArg == 2
MaxNextCalls == 2
NumCalls == 2
MaxItems == 2
MaxClock == 2
MaxTasks == 2

(* ---------------------------- values ----------------------------------- *)
Nodes == 1..NumNodes
NoNode == 0
Calls == 1..NumCalls

Undefined == "undefined"
DEFAULT_ACTION == "Symbol(DEFAULT_ACTION)"
StringActions == {"next", "complete"}
NodeAction == StringActions \cup {DEFAULT_ACTION}
ActionKeys == {"next", DEFAULT_ACTION}
ReturnVals == StringActions \cup {Undefined}
ExecVals == StringActions
\* what execItem and execItemFallback may return for an item
ItemVals == {"next", Undefined}
PrepVals == {"p1", "p2"}
Contexts == {"ctxA"}
\* the context objects of the application
ContextObjects == {"ctxA", "ctxB"}
WaitMsArgs == {0, 50}
\* the maxRetries arguments a constructor may be given
RetryArgs == (-1)..MaxRetriesArg
NodeKinds == {"BaseNodeImpl", "NodeImpl"}
SequentialBatchKinds == {"BatchNodeImpl", "AsyncBatchNodeImpl"}
BatchKinds == SequentialBatchKinds \cup {"AsyncParallelBatchNodeImpl"}
AsyncBatchKinds == {"AsyncBatchNodeImpl", "AsyncParallelBatchNodeImpl"}

\* the arrays prep may hand to a batch node, by length
ArrayOfLength(k) == "Array(" \o ToString(k) \o ")"
ArrayVals == {ArrayOfLength(k) : k \in 0..MaxItems}
\* Array.isArray(prepResult)
IsArray(v) == v \in ArrayVals
ArrayLength(v) == CHOOSE k \in 0..MaxItems : ArrayOfLength(k) = v

NoError == <<"none", 0>>
PrepError == <<"prep", 0>>
PostError == <<"post", 0>>
FallbackError == <<"fallback", 0>>
LoopError == <<"finished loop unexpectedly", 0>>
TypeError == <<"TypeError", 0>>
\* new Error('[PocketFlow] Input to BatchNode ... exec is not an array.')
NotArrayError == <<"exec is not an array", 0>>
ExecError(attempt) == <<"exec", attempt>>
\* the error raised by attempt j of execItem on item i in the k-th call of exec
ItemError(k, i, j) == <<"execItem", 100 * k + 10 * i + j>>
ItemFallbackError == <<"execItemFallback", 0>>
ItemLoopError == <<"item loop finished unexpectedly", 0>>
\* outcome of a call of a batch exec that has not settled / that resolved
Pending == <<"pending", 0>>
Resolved == <<"resolved", 0>>

VARIABLES
    kind,            \* class of each node object
    overridesFallback, \* whether the node's class overrides execFallback
    overridesItemFallback, \* whether the node's class overrides execItemFallback
    overridesPost,   \* whether the node's class overrides post
    maxRetries,      \* NodeImpl.maxRetries
    waitMs,          \* NodeImpl.waitMs
    currentRetry,    \* NodeImpl.currentRetry (an instance field)
    successors,      \* BaseNodeImpl.successors
    nextCalls,       \* number of next() registrations made so far
    startNode,       \* BaseFlow.startNode
    sharedState,     \* BaseFlow.sharedState
    currentNode,     \* BaseFlow.currentNode
    overlap,         \* whether the caller lets invocations overlap
    call,            \* per invocation: position and locals
    obs,             \* per invocation: what the current node run has done
    tasks,           \* per invocation: the _execItemWithRetry calls made by its batch node
    rounds,          \* per invocation: the outcome of each call of the batch exec
    writesContext,   \* whether the nodes' prep and post write to the shared context
    heap,            \* the contents of each shared context object
    lastNext,        \* the call of next() just made: receiver, arguments, warnings
                     \* logged, value returned (none once the flow is run)
    builder,         \* FlowBuilder.startNode and FlowBuilder.sharedState
    built,           \* outcome of the last build method called on the builder
    clock,           \* the agent's clock: Date.now()
    issued,          \* the tasks createTask has returned, in order
    files,           \* public/generated_charts: for each file name, the call that wrote it last
    response         \* the HTTP response the agent sent last

vars == <<kind, overridesFallback, overridesItemFallback, overridesPost, maxRetries, waitMs,
          currentRetry, successors, nextCalls, startNode, sharedState, currentNode,
          overlap, call, obs, tasks, rounds, writesContext, heap,
          lastNext, builder, built, clock, issued, files, response>>

nodeConfig == <<kind, overridesFallback, overridesItemFallback, overridesPost, maxRetries, waitMs,
                writesContext>>
builderVars == <<builder, built>>
agentVars == <<clock, issued, files, response>>
graphLog == <<lastNext>>
restVars == <<builderVars, graphLog, heap>>
batchVars == <<tasks, rounds>>
flowConfig == <<startNode, sharedState, overlap>>

(* ------------------------ construction --------------------------------- *)
CoerceMaxRetries_asGiven(arg) == arg

\* NodeImpl.constructor: this.maxRetries = Math.max(1, maxRetries)
CoerceMaxRetries(arg) == IF arg < 1 THEN 1 ELSE arg

\* the nodes' classes define their own post
InitPost == overridesPost = [n \in Nodes |-> TRUE]

\* new Map(): no action has a successor
EmptySuccessors == [a \in ActionKeys |-> NoNode]

IdleCall ==
    [pc |-> "idle", self |-> NoNode, shared |-> Undefined, viaFlow |-> FALSE,
     prepResult |-> Undefined, execResult |-> Undefined,
     error |-> NoError, action |-> Undefined]

FreshObs ==
    [prepCalls |-> 0, prepDone |-> FALSE, execCalls |-> 0, execFails |-> 0,
     execDone |-> FALSE, fallbackCalls |-> 0, fallbackArgs |-> <<Undefined, NoError>>,
     fallbackDone |-> FALSE,
     postCalls |-> 0, postArgs |-> <<Undefined, Undefined, Undefined>>,
     sleeps |-> 0, origin |-> NoError, lastExecError |-> NoError,
     prepRet |-> Undefined, execRet |-> Undefined,
     fallbackRet |-> Undefined, postRet |-> Undefined]

\* A node class with the arguments its constructor is given.  BaseNodeImpl has
\* no retry fields; they are pinned to one attempt and no delay.
NodeConfigs ==
    {[k |-> "BaseNodeImpl", f |-> FALSE, m |-> 1, w |-> 0]} \cup
    {[k |-> "NodeImpl", f |-> f, m |-> CoerceMaxRetries(a), w |-> w] :
        f \in BOOLEAN, a \in RetryArgs, w \in WaitMsArgs}

\* The nodes of one flow are instances of one class built with the same
\* arguments (as in the repository's tests); each keeps its own fields.
InitNodes ==
    /\ \E cfg \in NodeConfigs :
        /\ kind = [n \in Nodes |-> cfg.k]
        /\ overridesFallback = [n \in Nodes |-> cfg.f]
        /\ overridesItemFallback = [n \in Nodes |-> FALSE]
        /\ maxRetries = [n \in Nodes |-> cfg.m]
        /\ waitMs = [n \in Nodes |-> cfg.w]
    /\ currentRetry = [n \in Nodes |-> 0]
    /\ successors = [n \in Nodes |-> EmptySuccessors]
    /\ nextCalls = 0

\* BaseFlow.constructor
InitFlow ==
    /\ startNode = 1
    /\ sharedState \in Contexts
    /\ currentNode = NoNode
    /\ call = [r \in Calls |-> IdleCall]
    /\ obs = [r \in Calls |-> FreshObs]
    /\ tasks = [r \in Calls |-> {}]
    /\ rounds = [r \in Calls |-> <<>>]

\* new FlowBuilder(): both fields null; nothing built, nothing logged, the
\* context objects as the application created them
NoDriver == [class |-> "none", startNode |-> NoNode, sharedState |-> Undefined,
             currentNode |-> NoNode]

NoBuild == [flavor |-> "none", outcome |-> "none", startNode |-> NoNode,
            sharedState |-> Undefined, driver |-> NoDriver]

\* no call of next() yet
NoNextCall == [receiver |-> NoNode, node |-> NoNode, action |-> Undefined,
               warnings |-> 0, value |-> NoNode]

InitRest ==
    /\ builder = [startNode |-> NoNode, sharedState |-> Undefined]
    /\ built = NoBuild
    /\ lastNext = NoNextCall
    /\ heap = [x \in ContextObjects |-> {}]

\* the state of the agent's module once loaded: no task created, no chart written
NoResponse == [route |-> "none", id |-> Undefined, status |-> 0,
               body |-> [error |-> "none"]]

TaskId(t) == <<"agent-task", t>>
TaskIds == {TaskId(t) : t \in 0..MaxClock}
ChartFilename(id) == <<id, "png">>
NoWriter == 0

InitAgent ==
    /\ clock = 0
    /\ issued = <<>>
    /\ files = [id \in TaskIds |-> NoWriter]
    /\ response = NoResponse

Init == InitNodes /\ InitFlow /\ InitRest /\ InitAgent /\ InitPost /\ overlap = FALSE /\ writesContext = FALSE

(* ------------------------- call positions ------------------------------ *)
InNode == {"prep", "exec", "sleep", "fallback", "post"}

\* an invocation is in progress: it will take further steps on its own
Active(r) ==
    \/ call[r].pc \in InNode
    \/ call[r].viaFlow /\ call[r].pc \in {"returned", "threw"}

\* the slot of the next invocation: the lowest one that is not in progress
FreeSlot(r) == ~Active(r) /\ \A q \in Calls : q < r => Active(q)

MayStart(r) == FreeSlot(r) /\ (overlap \/ \A q \in Calls : ~Active(q))

\* a call of _execItemWithRetry that has not settled
InFlight(t) == t.pc \in {"execItem", "sleep", "fallback"}

\* no item execution of an earlier run of the slot is still going on: the
\* application starts its next run after the work of the previous one ended
Quiescent(r) == \A t \in tasks[r] : ~InFlight(t)

(* --------------------------- BaseNodeImpl ------------------------------ *)
\* successors.has(action)
HasSuccessor(n, a) == a \in ActionKeys /\ successors[n][a] # NoNode

\* successors.get(action); undefined (NoNode) when the map has no such key
GetSuccessor(n, a) == IF a \in ActionKeys THEN successors[n][a] ELSE NoNode

\* the arguments next() may be given for action: a string, or none
NextArgs == {"next", Undefined}

\* action: NodeAction = DEFAULT_ACTION
ActionOrDefault(a) == IF a = Undefined THEN DEFAULT_ACTION ELSE a

OverwriteWarnings_always(n, a) == 1

\* if (this.successors.has(action)) this.logger.warn(...)
OverwriteWarnings(n, a) == IF HasSuccessor(n, a) THEN 1 ELSE 0

NextReturnValue_receiver(n, m) == n

\* return node;
NextReturnValue(n, m) == m

\* BaseNodeImpl.next(node, action) on node n, given m and a.  The
\* application wires the graph before it runs anything.
NextRegister(n, m, a) ==
    LET key == ActionOrDefault(a)
    IN  /\ nextCalls < MaxNextCalls
        /\ \A q \in Calls : call[q].pc = "idle"
        /\ successors' = [successors EXCEPT ![n][key] = m]
        /\ lastNext' = [receiver |-> n, node |-> m, action |-> a,
                        warnings |-> OverwriteWarnings(n, key),
                        value |-> NextReturnValue(n, m)]
        /\ nextCalls' = nextCalls + 1
        /\ UNCHANGED <<agentVars, nodeConfig, builderVars, heap, flowConfig, batchVars,
                       currentRetry, currentNode, call, obs>>

\* what _run hands to post: (shared, prepResult, execResult)
PostArguments(c) == <<c.shared, c.prepResult, c.execResult>>

RunResult_exec(execResult, postResult) == execResult

\* what _run returns: the value post returned
RunResult(execResult, postResult) == postResult

\* what execFallback is handed: (prepResult, error)
FallbackArguments(c, e) == <<c.prepResult, e>>

\* the call's records once run(shared, fromFlow) has entered _run and invoked prep
EnterRun(n, ctx, fromFlow) ==
    [pc |-> "prep", self |-> n, shared |-> ctx, viaFlow |-> fromFlow,
     prepResult |-> Undefined, execResult |-> Undefined,
     error |-> NoError, action |-> Undefined]

EnterRunObs == [FreshObs EXCEPT !.prepCalls = 1]

\* a phase raised e: _run's catch logs and rethrows, run() rejects with e
Raise(c, e) == [c EXCEPT !.pc = "threw", !.error = e]

\* the body of one iteration of the retry loop begins: exec is invoked
InvokeExec(o) == [o EXCEPT !.execCalls = @ + 1]

\* _exec resolved with v: post is invoked
InvokePost(c, o, v) ==
    LET c1 == [c EXCEPT !.execResult = v, !.pc = "post"]
    IN  <<c1, [o EXCEPT !.postCalls = @ + 1, !.postArgs = PostArguments(c1)]>>

(* ----------------------- batch exec: the fan-out ----------------------- *)
\* _execItemWithRetry(item) has been called for item i by the k-th call of
\* exec and has invoked execItem for the first time
NewTask(k, i) ==
    [round |-> k, item |-> i, pc |-> "execItem", itemRetry |-> 0,
     fb |-> "none", error |-> NoError, rejection |-> NoError,
     result |-> Undefined]

\* the items whose _execItemWithRetry a call of exec starts before its first
\* await: all of them (items.map) or the first one (for ... of)
FirstItems_all(n, len) == 1..len

FirstItems_serial(n, len) == IF len > 0 THEN {1} ELSE {}

\* the item executions exec starts before its first await: every item for
\* items.map(...), the first item for the for-of loop
FirstItems(n, len) ==
    IF kind[n] = "AsyncParallelBatchNodeImpl" THEN 1..len
    ELSE IF len > 0 THEN {1} ELSE {}

\* exec(prepResult) is invoked for the k-th time on node n: the tasks and the
\* outcomes of invocation r afterwards, <<T, R>> being those before
ExecInvoked(n, v, k, T, R) ==
    IF kind[n] \notin BatchKinds THEN <<T, R>>
    ELSE IF ~IsArray(v) THEN <<T, Append(R, Pending)>>
    ELSE <<T \cup {NewTask(k, i) : i \in FirstItems(n, ArrayLength(v))},
           Append(R, Pending)>>

(* ------------------------------ NodeImpl ------------------------------- *)
LoopContinues_short(n, i) == i < maxRetries[n] - 1

\* for (...; this.currentRetry < this.maxRetries; ...)
LoopContinues(n, i) == i < maxRetries[n]

IsLastAttempt_offByOne(n) == currentRetry[n] = maxRetries[n]

\* if (this.currentRetry === this.maxRetries - 1)
IsLastAttempt(n) == currentRetry[n] = maxRetries[n] - 1

ShouldSleep_always(n) == waitMs[n] >= 0

\* if (this.waitMs > 0)
ShouldSleep(n) == waitMs[n] > 0

DefaultFallback_ownError(prepResult, error) == FallbackError

\* NodeImpl.execFallback: throw error; the error it raises
DefaultFallback(prepResult, error) == error

\* what a phase of node n leaves in the context object x it was handed, when
\* the application's nodes write to the context: its own mark
WriteMark(h, x, n, phase) ==
    IF writesContext THEN [h EXCEPT ![x] = @ \cup {<<n, phase>>}] ELSE h

\* prep resolved with v; _exec(prepResult) starts and invokes exec
PrepReturns(r, v) ==
    LET c == call[r]
        n == c.self
    IN  /\ c.pc = "prep"
        /\ call' = [call EXCEPT ![r] = [c EXCEPT !.prepResult = v, !.pc = "exec"]]
        /\ obs' = [obs EXCEPT ![r] =
                     InvokeExec([@ EXCEPT !.prepDone = TRUE, !.prepRet = v])]
        /\ currentRetry' = IF kind[n] = "BaseNodeImpl" THEN currentRetry
                           ELSE [currentRetry EXCEPT ![n] = 0]
        /\ LET tr == ExecInvoked(n, v, 1, tasks[r], rounds[r])
           IN  /\ tasks' = [tasks EXCEPT ![r] = tr[1]]
               /\ rounds' = [rounds EXCEPT ![r] = tr[2]]
        /\ heap' = WriteMark(heap, c.shared, n, "prep")
        /\ UNCHANGED <<agentVars, nodeConfig, builderVars, graphLog, flowConfig, successors,
                       nextCalls, currentNode>>

PrepThrows_retried(r) ==
    /\ call[r].pc = "prep"
    /\ IF obs[r].prepCalls < maxRetries[call[r].self]
       THEN /\ obs' = [obs EXCEPT ![r].prepCalls = @ + 1]
            /\ UNCHANGED call
       ELSE /\ call' = [call EXCEPT ![r] = Raise(@, PrepError)]
            /\ obs' = [obs EXCEPT ![r].origin = PrepError]
    /\ UNCHANGED <<agentVars, nodeConfig, restVars, flowConfig, batchVars, currentRetry, successors, nextCalls,
                   currentNode>>

\* prep raised
PrepThrows(r) ==
    /\ call[r].pc = "prep"
    /\ call' = [call EXCEPT ![r] = Raise(@, PrepError)]
    /\ obs' = [obs EXCEPT ![r].origin = PrepError]
    /\ UNCHANGED <<agentVars, nodeConfig, restVars, flowConfig, batchVars, currentRetry, successors, nextCalls,
                   currentNode>>

\* an attempt of exec resolved with v: _exec returns it, post is invoked
ExecReturns(r, v) ==
    LET c == call[r]
        o == [obs[r] EXCEPT !.execDone = TRUE, !.execRet = v]
        cp == InvokePost(c, o, v)
    IN  /\ c.pc = "exec"
        /\ kind[c.self] \notin BatchKinds
        /\ call' = [call EXCEPT ![r] = cp[1]]
        /\ obs' = [obs EXCEPT ![r] = cp[2]]
        /\ UNCHANGED <<agentVars, nodeConfig, restVars, flowConfig, batchVars, currentRetry, successors, nextCalls,
                       currentNode>>

\* this.currentRetry++ and the loop test, then the next attempt or the
\* throw after the loop
NextAttempt(r) ==
    LET c == call[r]
        n == c.self
        i == currentRetry[n] + 1
        tr == ExecInvoked(n, c.prepResult, obs[r].execCalls + 1, tasks[r], rounds[r])
    IN  /\ currentRetry' = [currentRetry EXCEPT ![n] = i]
        /\ IF LoopContinues(n, i)
           THEN /\ call' = [call EXCEPT ![r].pc = "exec"]
                /\ obs' = [obs EXCEPT ![r] = InvokeExec(@)]
                /\ tasks' = [tasks EXCEPT ![r] = tr[1]]
                /\ rounds' = [rounds EXCEPT ![r] = tr[2]]
           ELSE /\ call' = [call EXCEPT ![r] = Raise(@, LoopError)]
                /\ obs' = [obs EXCEPT ![r].origin = LoopError]
                /\ UNCHANGED batchVars

\* the catch of the retry loop: the awaited exec rejected with e.  T and R are
\* the tasks and outcomes of invocation r as the rejection leaves them.
ExecRejected(r, e, T, R) ==
    LET c == call[r]
        n == c.self
        o == [obs[r] EXCEPT !.execFails = @ + 1, !.lastExecError = e]
        tr == ExecInvoked(n, c.prepResult, obs[r].execCalls + 1, T, R)
        keep == /\ tasks' = [tasks EXCEPT ![r] = T]
                /\ rounds' = [rounds EXCEPT ![r] = R]
    IN  IF kind[n] = "BaseNodeImpl"
        THEN \* BaseNodeImpl._exec: no retry, no fallback
             /\ call' = [call EXCEPT ![r] = Raise(c, e)]
             /\ obs' = [obs EXCEPT ![r] = [o EXCEPT !.origin = e]]
             /\ UNCHANGED currentRetry
             /\ keep
        ELSE IF IsLastAttempt(n)
        THEN \* execFallback(prepResult, error) is invoked
             LET of == [o EXCEPT !.fallbackCalls = @ + 1,
                                 !.fallbackArgs = FallbackArguments(c, e)]
             IN  /\ IF overridesFallback[n]
                    THEN /\ call' = [call EXCEPT ![r].pc = "fallback"]
                         /\ obs' = [obs EXCEPT ![r] = of]
                    ELSE LET thrown == DefaultFallback(of.fallbackArgs[1],
                                                       of.fallbackArgs[2])
                         IN  /\ call' = [call EXCEPT ![r] = Raise(c, thrown)]
                             /\ obs' = [obs EXCEPT ![r] =
                                          [of EXCEPT !.origin = thrown]]
                 /\ UNCHANGED currentRetry
                 /\ keep
        ELSE IF ShouldSleep(n)
        THEN /\ call' = [call EXCEPT ![r].pc = "sleep"]
             /\ obs' = [obs EXCEPT ![r] = [o EXCEPT !.sleeps = @ + 1]]
             /\ UNCHANGED currentRetry
             /\ keep
        ELSE /\ currentRetry' = [currentRetry EXCEPT ![n] = @ + 1]
             /\ IF LoopContinues(n, currentRetry[n] + 1)
                THEN /\ call' = [call EXCEPT ![r].pc = "exec"]
                     /\ obs' = [obs EXCEPT ![r] = InvokeExec(o)]
                     /\ tasks' = [tasks EXCEPT ![r] = tr[1]]
                     /\ rounds' = [rounds EXCEPT ![r] = tr[2]]
                ELSE /\ call' = [call EXCEPT ![r] = Raise(c, LoopError)]
                     /\ obs' = [obs EXCEPT ![r] = [o EXCEPT !.origin = LoopError]]
                     /\ keep

\* an attempt of exec raised
ExecThrows(r) ==
    /\ call[r].pc = "exec"
    /\ kind[call[r].self] \notin BatchKinds
    /\ ExecRejected(r, ExecError(obs[r].execCalls), tasks[r], rounds[r])
    /\ UNCHANGED <<agentVars, nodeConfig, restVars, flowConfig, successors, nextCalls, currentNode>>

\* await sleep(this.waitMs) resolved
SleepDone(r) ==
    /\ call[r].pc = "sleep"
    /\ NextAttempt(r)
    /\ UNCHANGED <<agentVars, nodeConfig, restVars, flowConfig, successors, nextCalls, currentNode>>

FallbackReturns_thenThrow(r, v) ==
    /\ call[r].pc = "fallback"
    /\ call' = [call EXCEPT ![r] = Raise(@, obs[r].fallbackArgs[2])]
    /\ obs' = [obs EXCEPT ![r] = [@ EXCEPT !.fallbackRet = v, !.fallbackDone = TRUE,
                                            !.origin = obs[r].fallbackArgs[2]]]
    /\ UNCHANGED <<agentVars, nodeConfig, restVars, flowConfig, batchVars, currentRetry, successors, nextCalls,
                   currentNode>>

\* an overriding execFallback resolved with v: _exec returns it
FallbackReturns(r, v) ==
    LET c == call[r]
        o == [obs[r] EXCEPT !.fallbackRet = v, !.fallbackDone = TRUE]
        cp == InvokePost(c, o, v)
    IN  /\ c.pc = "fallback"
        /\ call' = [call EXCEPT ![r] = cp[1]]
        /\ obs' = [obs EXCEPT ![r] = cp[2]]
        /\ UNCHANGED <<agentVars, nodeConfig, restVars, flowConfig, batchVars, currentRetry, successors, nextCalls,
                       currentNode>>

\* an overriding execFallback raised: the error it was handed or one of its own
FallbackThrows(r, e) ==
    /\ call[r].pc = "fallback"
    /\ e \in {obs[r].fallbackArgs[2], FallbackError}
    /\ call' = [call EXCEPT ![r] = Raise(@, e)]
    /\ obs' = [obs EXCEPT ![r].origin = e]
    /\ UNCHANGED <<agentVars, nodeConfig, restVars, flowConfig, batchVars, currentRetry, successors, nextCalls,
                   currentNode>>

DefaultPost_next(shared, prepResult, execResult) == "next"

\* BaseNodeImpl.post: return execResult
DefaultPost(shared, prepResult, execResult) == execResult

\* post resolved with v: _run and run return it
PostReturns(r, v) ==
    LET c == call[r]
    IN  /\ c.pc = "post"
        /\ overridesPost[c.self] \/ v = DefaultPost(c.shared, c.prepResult, c.execResult)
        /\ call' = [call EXCEPT ![r] =
                      [c EXCEPT !.pc = "returned",
                                !.action = RunResult(c.execResult, v)]]
        /\ obs' = [obs EXCEPT ![r].postRet = v]
        /\ heap' = WriteMark(heap, c.shared, c.self, "post")
        /\ UNCHANGED <<agentVars, nodeConfig, builderVars, graphLog, flowConfig, batchVars,
                       currentRetry, successors, nextCalls, currentNode>>

\* post raised
PostThrows(r) ==
    /\ call[r].pc = "post"
    /\ overridesPost[call[r].self]
    /\ call' = [call EXCEPT ![r] = Raise(@, PostError)]
    /\ obs' = [obs EXCEPT ![r].origin = PostError]
    /\ UNCHANGED <<agentVars, nodeConfig, restVars, flowConfig, batchVars, currentRetry, successors, nextCalls,
                   currentNode>>

(* ------------------ BatchNodeImpl and its async variants ---------------- *)
Replace(T, t, u) == (T \ {t}) \cup {u}

CurrentRound_stale(r, t) == call[r].pc = "exec" /\ t.round <= Len(rounds[r])

\* the call of exec that started task t is the one _exec is awaiting
CurrentRound(r, t) ==
    /\ call[r].pc = "exec"
    /\ t.round = Len(rounds[r])
    /\ rounds[r][t.round] = Pending

ItemIsLastAttempt_first(n, j) == j = 0

\* if (itemRetry === this.maxRetries - 1)
ItemIsLastAttempt(n, j) == j = maxRetries[n] - 1

JoinAll_any(T, k) == \E x \in T : x.round = k /\ x.pc = "resolved"

\* Promise.all(promises) resolves: every promise of the call has resolved
JoinAll(T, k) == \A x \in T : x.round = k => x.pc = "resolved"

BatchRethrow_swallowed(e) == NoError

\* the catch around the awaited item(s) in exec: throw error
BatchRethrow(e) == e

BatchResult_items(results) == IF "next" \in results THEN "next" ELSE Undefined

\* results.push(result) ... return;  the call of exec resolves with undefined
BatchResult(results) == Undefined

\* the call of exec that invocation r awaits returns: _exec returns its
\* value and post is invoked
BatchExecResolves(r, T) ==
    LET c == call[r]
        v == BatchResult({t.result : t \in {x \in T : x.round = Len(rounds[r])}})
        o == [obs[r] EXCEPT !.execDone = TRUE, !.execRet = v]
        cp == InvokePost(c, o, v)
    IN  /\ call' = [call EXCEPT ![r] = cp[1]]
        /\ obs' = [obs EXCEPT ![r] = cp[2]]
        /\ tasks' = [tasks EXCEPT ![r] = T]
        /\ rounds' = [rounds EXCEPT ![r] = [@ EXCEPT ![Len(@)] = Resolved]]
        /\ UNCHANGED currentRetry

\* _execItemWithRetry of task t resolved; u is the task's record afterwards
TaskResolved(r, t, u) ==
    LET n == call[r].self
        len == ArrayLength(call[r].prepResult)
        T == Replace(tasks[r], t, [u EXCEPT !.pc = "resolved"])
        only == /\ tasks' = [tasks EXCEPT ![r] = T]
                /\ UNCHANGED <<call, obs, rounds, currentRetry>>
    IN  IF ~CurrentRound(r, t) THEN only
        ELSE IF kind[n] \in SequentialBatchKinds
        THEN IF t.item < len
             THEN \* the loop goes on to the next item
                  /\ tasks' = [tasks EXCEPT ![r] = T \cup {NewTask(t.round, t.item + 1)}]
                  /\ UNCHANGED <<call, obs, rounds, currentRetry>>
             ELSE BatchExecResolves(r, T)
        ELSE IF JoinAll(T, t.round) THEN BatchExecResolves(r, T)
        ELSE only

\* _execItemWithRetry of task t rejected with e; u is the task's record
\* without the rejection
TaskRejected(r, t, u, e) ==
    LET T == Replace(tasks[r], t, [u EXCEPT !.pc = "rejected", !.rejection = e])
    IN  IF CurrentRound(r, t)
        THEN ExecRejected(r, BatchRethrow(e), T,
                          [rounds[r] EXCEPT ![t.round] = BatchRethrow(e)])
        ELSE /\ tasks' = [tasks EXCEPT ![r] = T]
             /\ UNCHANGED <<call, obs, rounds, currentRetry>>

ThrowsAfterItemFallback_never(n) == FALSE

\* AsyncBatchNodeImpl._execItemWithRetry: await this.execItemFallback(...);
\* throw error.  BatchNodeImpl returns the fallback's value instead.
ThrowsAfterItemFallback(n) == kind[n] # "BatchNodeImpl"

batchFrame == <<agentVars, nodeConfig, restVars, flowConfig, successors, nextCalls, currentNode>>

\* an attempt of execItem resolved with v
ItemReturns(r, t, v) ==
    /\ t \in tasks[r] /\ t.pc = "execItem"
    /\ TaskResolved(r, t, [t EXCEPT !.result = v])
    /\ UNCHANGED batchFrame

\* itemRetry++ and the loop test, then the next attempt of execItem
ItemNextAttempt(r, t, u) ==
    IF LoopContinues(call[r].self, t.itemRetry + 1)
    THEN /\ tasks' = [tasks EXCEPT ![r] =
                        Replace(@, t, [u EXCEPT !.pc = "execItem",
                                                !.itemRetry = @ + 1])]
         /\ UNCHANGED <<call, obs, rounds, currentRetry>>
    ELSE TaskRejected(r, t, u, ItemLoopError)

\* an attempt of execItem raised
ItemThrows(r, t) ==
    LET n == call[r].self
        e == ItemError(t.round, t.item, t.itemRetry + 1)
        u == [t EXCEPT !.error = e]
    IN  /\ t \in tasks[r] /\ t.pc = "execItem"
        /\ IF ItemIsLastAttempt(n, t.itemRetry)
           THEN IF overridesItemFallback[n]
                THEN /\ tasks' = [tasks EXCEPT ![r] =
                                    Replace(@, t, [u EXCEPT !.pc = "fallback",
                                                            !.fb = "called"])]
                     /\ UNCHANGED <<call, obs, rounds, currentRetry>>
                ELSE \* BatchNodeImpl.execItemFallback: throw error
                     TaskRejected(r, t, [u EXCEPT !.fb = "threw"], e)
           ELSE IF ShouldSleep(n)
           THEN /\ tasks' = [tasks EXCEPT ![r] = Replace(@, t, [u EXCEPT !.pc = "sleep"])]
                /\ UNCHANGED <<call, obs, rounds, currentRetry>>
           ELSE ItemNextAttempt(r, t, u)
        /\ UNCHANGED batchFrame

\* await sleep(this.waitMs) of an item resolved
ItemSleepDone(r, t) ==
    /\ t \in tasks[r] /\ t.pc = "sleep"
    /\ ItemNextAttempt(r, t, t)
    /\ UNCHANGED batchFrame

\* an overriding execItemFallback resolved with a value
ItemFallbackReturns(r, t, v) ==
    LET u == [t EXCEPT !.fb = "returned"]
    IN  /\ t \in tasks[r] /\ t.pc = "fallback"
        /\ IF ThrowsAfterItemFallback(call[r].self)
           THEN TaskRejected(r, t, u, t.error)
           ELSE TaskResolved(r, t, [u EXCEPT !.result = v])
        /\ UNCHANGED batchFrame

\* an overriding execItemFallback raised: the error it was handed or its own
ItemFallbackThrows(r, t, e) ==
    /\ t \in tasks[r] /\ t.pc = "fallback"
    /\ e \in {t.error, ItemFallbackError}
    /\ TaskRejected(r, t, [t EXCEPT !.fb = "threw"], e)
    /\ UNCHANGED batchFrame

\* exec of a batch node was handed an empty array: it returns at once
BatchEmptyResolves(r) ==
    /\ call[r].pc = "exec"
    /\ kind[call[r].self] \in BatchKinds
    /\ IsArray(call[r].prepResult) /\ ArrayLength(call[r].prepResult) = 0
    /\ rounds[r][Len(rounds[r])] = Pending
    /\ BatchExecResolves(r, tasks[r])
    /\ UNCHANGED batchFrame

InputCheckFails_resolves(r) == BatchExecResolves(r, tasks[r])

\* if (!Array.isArray(prepResult)) throw new Error(...): the call of exec
\* rejects before it has touched an item
InputCheckFails(r) ==
    ExecRejected(r, NotArrayError, tasks[r],
                 [rounds[r] EXCEPT ![Len(rounds[r])] = NotArrayError])

\* exec of a batch node was handed something that is not an array
BatchNotArray(r) ==
    /\ call[r].pc = "exec"
    /\ kind[call[r].self] \in BatchKinds
    /\ ~IsArray(call[r].prepResult)
    /\ rounds[r][Len(rounds[r])] = Pending
    /\ InputCheckFails(r)
    /\ UNCHANGED batchFrame

(* ------------------------------ BaseFlow ------------------------------- *)
RunEntry_resumed == IF currentNode # NoNode THEN currentNode ELSE startNode

\* run(): this.currentNode = this.startNode, whatever currentNode was
RunEntry == startNode

\* run(): this.currentNode = this.startNode, then the first pass of the loop
\* up to the await of currentNode.run(sharedState, true)
FlowRun(r) ==
    /\ MayStart(r)
    /\ Quiescent(r)
    /\ currentNode' = RunEntry
    /\ call' = [call EXCEPT ![r] = EnterRun(RunEntry, sharedState, TRUE)]
    /\ obs' = [obs EXCEPT ![r] = EnterRunObs]
    /\ tasks' = [tasks EXCEPT ![r] = {}]
    /\ rounds' = [rounds EXCEPT ![r] = <<>>]
    /\ lastNext' = NoNextCall
    /\ UNCHANGED <<agentVars, nodeConfig, builderVars, heap, flowConfig, currentRetry, successors,
                   nextCalls>>

Rethrow_wrapped(e) == <<"FlowError", 0>>

\* what the error that escaped the node's run becomes in run()'s catch: throw error
Rethrow(e) == e

FlowLookup_self(a) == currentNode

FlowLookup_fromStart(a) == GetSuccessor(startNode, a)

\* this.currentNode.successors.get(action)
FlowLookup(a) == GetSuccessor(currentNode, a)

Terminated_kept == currentNode

\* this.currentNode = null
Terminated == NoNode

RunAwaited_early(c) == c.pc \in {"post", "returned"}

\* const action = await this.currentNode.run(...): the node's run has resolved
RunAwaited(c) == c.pc = "returned"

\* the node's run resolved with an action: lines 39-67 and the next pass of
\* the loop up to its await
FlowStep(r) ==
    LET c == call[r]
        a == c.action
    IN  /\ RunAwaited(c) /\ c.viaFlow
        /\ IF a = Undefined
           THEN /\ currentNode' = Terminated
                /\ call' = [call EXCEPT ![r].pc = "resolved"]
                /\ UNCHANGED obs
           ELSE IF currentNode = NoNode
           THEN \* this.currentNode.successors on null: a TypeError inside the try
                /\ currentNode' = currentNode
                /\ call' = [call EXCEPT ![r] =
                              [c EXCEPT !.pc = "rejected", !.error = Rethrow(TypeError)]]
                /\ obs' = [obs EXCEPT ![r].origin = TypeError]
           ELSE IF FlowLookup(a) = NoNode
           THEN /\ currentNode' = Terminated
                /\ call' = [call EXCEPT ![r].pc = "resolved"]
                /\ UNCHANGED obs
           ELSE /\ currentNode' = FlowLookup(a)
                /\ call' = [call EXCEPT ![r] =
                              EnterRun(FlowLookup(a), sharedState, TRUE)]
                /\ obs' = [obs EXCEPT ![r] = EnterRunObs]
        /\ IF a # Undefined /\ currentNode # NoNode /\ FlowLookup(a) # NoNode
           THEN \* the records of the node that was left are dropped
                /\ tasks' = [tasks EXCEPT ![r] = {}]
                /\ rounds' = [rounds EXCEPT ![r] = <<>>]
           ELSE UNCHANGED batchVars
        /\ UNCHANGED <<agentVars, nodeConfig, restVars, flowConfig, currentRetry, successors, nextCalls>>

ContextOnAbort_rolledBack(h, x) == [h EXCEPT ![x] = {}]

\* what run()'s catch does to the shared state: nothing
ContextOnAbort(h, x) == h

\* the node's run rejected: the catch of run() logs and rethrows
FlowCatch(r) ==
    LET c == call[r]
    IN  /\ c.pc = "threw" /\ c.viaFlow
        /\ call' = [call EXCEPT ![r] =
                      [c EXCEPT !.pc = "rejected", !.error = Rethrow(c.error)]]
        /\ heap' = ContextOnAbort(heap, sharedState)
        /\ UNCHANGED <<agentVars, nodeConfig, builderVars, graphLog, flowConfig, batchVars,
                       currentRetry, successors, nextCalls, currentNode, obs>>

Reset_rewired ==
    /\ overlap \/ \A q \in Calls : ~Active(q)
    /\ currentNode' = startNode
    /\ successors' = [n \in Nodes |-> EmptySuccessors]
    /\ UNCHANGED <<agentVars, nodeConfig, restVars, flowConfig, batchVars, currentRetry, nextCalls,
                   call, obs>>

\* reset(): this.currentNode = this.startNode
Reset ==
    /\ overlap \/ \A q \in Calls : ~Active(q)
    /\ currentNode' = startNode
    /\ UNCHANGED <<agentVars, nodeConfig, restVars, flowConfig, batchVars, currentRetry, successors, nextCalls,
                   call, obs>>

(* --------------------------- specification ----------------------------- *)
Next ==
    \/ \E n \in Nodes, m \in Nodes, a \in NextArgs : NextRegister(n, m, a)
    \/ \E r \in Calls : FlowRun(r)
    \/ \E r \in Calls, v \in PrepVals : PrepReturns(r, v)
    \/ \E r \in Calls : PrepThrows(r)
    \/ \E r \in Calls, v \in ExecVals : ExecReturns(r, v)
    \/ \E r \in Calls : ExecThrows(r)
    \/ \E r \in Calls : SleepDone(r)
    \/ \E r \in Calls, v \in ExecVals : FallbackReturns(r, v)
    \/ \E r \in Calls, e \in {FallbackError} \cup {ExecError(i) : i \in 1..(MaxRetriesArg + 2)} :
          FallbackThrows(r, e)
    \/ \E r \in Calls, v \in ReturnVals : PostReturns(r, v)
    \/ \E r \in Calls : PostThrows(r)
    \/ \E r \in Calls : FlowStep(r)
    \/ \E r \in Calls : FlowCatch(r)
    \/ Reset

Spec == Init /\ [][Next]_vars

(* ------------- specification of overlapping use of one flow ------------ *)
\* the most attempts of exec one node run is followed through
AttemptCap == MaxRetriesArg + 2

\* The flow is a chain built beforehand: node n.next(node n+1, 'next')
ChainSuccessors ==
    [n \in Nodes |-> IF n < NumNodes
                     THEN [EmptySuccessors EXCEPT !["next"] = n + 1]
                     ELSE EmptySuccessors]

\* The caller does not await one run() before calling run() or reset() again
InitOverlap ==
    /\ \E cfg \in NodeConfigs :
        /\ kind = [n \in Nodes |-> cfg.k]
        /\ overridesFallback = [n \in Nodes |-> cfg.f]
        /\ overridesItemFallback = [n \in Nodes |-> FALSE]
        /\ maxRetries = [n \in Nodes |-> cfg.m]
        /\ waitMs = [n \in Nodes |-> cfg.w]
    /\ currentRetry = [n \in Nodes |-> 0]
    /\ successors = ChainSuccessors
    /\ nextCalls = NumNodes - 1
    /\ InitFlow /\ InitRest /\ InitAgent /\ InitPost /\ overlap = TRUE /\ writesContext = FALSE

NextOverlap ==
    \/ \E r \in Calls : FlowRun(r)
    \/ \E r \in Calls : PrepReturns(r, "p1")
    \/ \E r \in Calls : PrepThrows(r)
    \/ \E r \in Calls : ExecReturns(r, "next")
    \/ \E r \in Calls : obs[r].execCalls < AttemptCap /\ ExecThrows(r)
    \/ \E r \in Calls : SleepDone(r)
    \/ \E r \in Calls : FallbackReturns(r, "next")
    \/ \E r \in Calls : FallbackThrows(r, FallbackError)
    \/ \E r \in Calls, v \in {"next", Undefined} : PostReturns(r, v)
    \/ \E r \in Calls : PostThrows(r)
    \/ \E r \in Calls : FlowStep(r)
    \/ \E r \in Calls : FlowCatch(r)
    \/ Reset

SpecOverlap == InitOverlap /\ [][NextOverlap]_vars

(* ------------- specification of runs on a graph without cycles --------- *)
\* The graphs next() can build in which every edge leads to a node created
\* later: no path visits a node twice
ForwardGraphs ==
    {g \in [Nodes -> [ActionKeys -> Nodes \cup {NoNode}]] :
        /\ \A n \in Nodes, a \in ActionKeys : g[n][a] = NoNode \/ g[n][a] > n
        /\ Cardinality({na \in Nodes \X ActionKeys : g[na[1]][na[2]] # NoNode})
              <= MaxNextCalls}

InitAcyclic ==
    /\ \E cfg \in NodeConfigs :
        /\ kind = [n \in Nodes |-> cfg.k]
        /\ overridesFallback = [n \in Nodes |-> cfg.f]
        /\ overridesItemFallback = [n \in Nodes |-> FALSE]
        /\ maxRetries = [n \in Nodes |-> cfg.m]
        /\ waitMs = [n \in Nodes |-> cfg.w]
    /\ currentRetry = [n \in Nodes |-> 0]
    /\ successors \in ForwardGraphs
    /\ nextCalls = Cardinality({na \in Nodes \X ActionKeys :
                                   successors[na[1]][na[2]] # NoNode})
    /\ InitFlow /\ InitRest /\ InitAgent /\ InitPost /\ overlap = FALSE /\ writesContext = FALSE

\* a step of an invocation in progress: a phase completes, a delay ends, or
\* the driver continues after its await
Progress ==
    \/ \E r \in Calls, v \in PrepVals : PrepReturns(r, v)
    \/ \E r \in Calls : PrepThrows(r)
    \/ \E r \in Calls, v \in ExecVals : ExecReturns(r, v)
    \/ \E r \in Calls : ExecThrows(r)
    \/ \E r \in Calls : SleepDone(r)
    \/ \E r \in Calls, v \in ExecVals : FallbackReturns(r, v)
    \/ \E r \in Calls, e \in {FallbackError} \cup {ExecError(i) : i \in 1..(MaxRetriesArg + 2)} :
          FallbackThrows(r, e)
    \/ \E r \in Calls, v \in ReturnVals : PostReturns(r, v)
    \/ \E r \in Calls : PostThrows(r)
    \/ \E r \in Calls : FlowStep(r)
    \/ \E r \in Calls : FlowCatch(r)

NextAcyclic ==
    \/ \E r \in Calls : FlowRun(r)
    \/ Progress
    \/ Reset

\* every phase that was invoked completes, every promise that settled is
\* continued by the event loop
SpecAcyclic == InitAcyclic /\ [][NextAcyclic]_vars /\ WF_vars(Progress)

(* ------------- specification of flows whose nodes write context -------- *)
\* BaseFlow.constructor, given either context object
InitContextFlow ==
    /\ startNode = 1
    /\ sharedState \in ContextObjects
    /\ currentNode = NoNode
    /\ call = [r \in Calls |-> IdleCall]
    /\ obs = [r \in Calls |-> FreshObs]
    /\ tasks = [r \in Calls |-> {}]
    /\ rounds = [r \in Calls |-> <<>>]

InitContext ==
    InitNodes /\ InitContextFlow /\ InitRest /\ InitAgent /\ InitPost /\ overlap = FALSE /\ writesContext = TRUE

SpecContext == InitContext /\ [][Next]_vars

(* ----------------------------- FlowBuilder ----------------------------- *)
AllNodeKinds == NodeKinds \cup {"AsyncNodeImpl"} \cup BatchKinds

\* the class each node class extends
SuperClass(k) ==
    CASE k = "BaseNodeImpl" -> "none"
      [] k = "NodeImpl" -> "BaseNodeImpl"
      [] k = "AsyncNodeImpl" -> "NodeImpl"
      [] k = "BatchNodeImpl" -> "NodeImpl"
      [] k = "AsyncBatchNodeImpl" -> "AsyncNodeImpl"
      [] k = "AsyncParallelBatchNodeImpl" -> "AsyncBatchNodeImpl"
      [] OTHER -> "none"

RECURSIVE InstanceOf(_, _)
InstanceOf_exact(k, cls) == k = cls

\* node instanceof cls, for a node of class k: cls is on k's prototype chain
InstanceOf(k, cls) ==
    IF k = "none" THEN FALSE
    ELSE IF k = cls THEN TRUE
    ELSE InstanceOf(SuperClass(k), cls)

\* the build methods: build, buildAsync, buildBatch, buildAsyncBatch,
\* buildAsyncParallelBatch
Flavors == {"base", "async", "batch", "asyncBatch", "asyncParallelBatch"}

\* the class the build method tests the start node against
RequiredClass(f) ==
    CASE f = "base" -> "BaseNodeImpl"
      [] f = "async" -> "AsyncNodeImpl"
      [] f = "batch" -> "BatchNodeImpl"
      [] f = "asyncBatch" -> "AsyncBatchNodeImpl"
      [] f = "asyncParallelBatch" -> "AsyncParallelBatchNodeImpl"

\* the concrete flow class the build method instantiates
FlowClass(f) ==
    CASE f = "base" -> "ConcreteBaseFlow"
      [] f = "async" -> "ConcreteAsyncFlow"
      [] f = "batch" -> "ConcreteBatchFlow"
      [] f = "asyncBatch" -> "ConcreteAsyncBatchFlow"
      [] f = "asyncParallelBatch" -> "ConcreteAsyncParallelBatchFlow"

NewFlow_atStart(cls, n, x) ==
    [class |-> cls, startNode |-> n, sharedState |-> x, currentNode |-> n]

\* BaseFlow.constructor(startNode, sharedState): this.currentNode = null
NewFlow(cls, n, x) ==
    [class |-> cls, startNode |-> n, sharedState |-> x, currentNode |-> NoNode]

BothSet_startOnly(b) == b.startNode # NoNode

\* !( !this.startNode || !this.sharedState )
BothSet(b) == b.startNode # NoNode /\ b.sharedState # Undefined

builderFrame ==
    <<agentVars, nodeConfig, flowConfig, batchVars, graphLog, heap, currentRetry, successors,
      nextCalls, currentNode, call, obs>>

\* withStartNode(node)
WithStartNode(n) ==
    /\ builder' = [builder EXCEPT !.startNode = n]
    /\ UNCHANGED <<built, builderFrame>>

\* withSharedState(state)
WithSharedState(x) ==
    /\ builder' = [builder EXCEPT !.sharedState = x]
    /\ UNCHANGED <<built, builderFrame>>

\* build(), buildAsync(), buildBatch(), buildAsyncBatch(),
\* buildAsyncParallelBatch()
Build(f) ==
    LET b == builder
        outcome ==
            IF ~BothSet(b) THEN "not set"
            ELSE IF ~InstanceOf(kind[b.startNode], RequiredClass(f))
            THEN "wrong start node"
            ELSE "flow"
    IN  /\ built' = [flavor |-> f, outcome |-> outcome,
                     startNode |-> b.startNode, sharedState |-> b.sharedState,
                     driver |-> IF outcome = "flow"
                                THEN NewFlow(FlowClass(f), b.startNode, b.sharedState)
                                ELSE NoDriver]
        /\ UNCHANGED <<builder, builderFrame>>

\* The application's nodes, of any class, before a flow exists for them
InitBuilder ==
    /\ kind \in [Nodes -> AllNodeKinds]
    /\ overridesFallback = [n \in Nodes |-> FALSE]
    /\ overridesItemFallback = [n \in Nodes |-> kind[n] \in AsyncBatchKinds]
    /\ maxRetries = [n \in Nodes |-> 1]
    /\ waitMs = [n \in Nodes |-> 0]
    /\ currentRetry = [n \in Nodes |-> 0]
    /\ successors = [n \in Nodes |-> EmptySuccessors]
    /\ nextCalls = 0
    /\ InitFlow /\ InitRest /\ InitAgent /\ InitPost /\ overlap = FALSE /\ writesContext = FALSE

NextBuilder ==
    \/ \E n \in Nodes : WithStartNode(n)
    \/ \E x \in ContextObjects : WithSharedState(x)
    \/ \E f \in Flavors : Build(f)

SpecBuilder == InitBuilder /\ [][NextBuilder]_vars

(* ---------------- specification of a flow on a batch node -------------- *)
\* A batch node class with its constructor arguments.  The async classes
\* declare execItemFallback abstract, so their subclasses always override it.
BatchConfigs ==
    {[k |-> k, f |-> f, g |-> g, m |-> CoerceMaxRetries(a), w |-> w] :
        k \in BatchKinds, f \in BOOLEAN, g \in BOOLEAN,
        a \in RetryArgs, w \in WaitMsArgs}

InitBatchNodes ==
    /\ \E cfg \in BatchConfigs :
        /\ cfg.k # "BatchNodeImpl" => cfg.g
        /\ kind = [n \in Nodes |-> cfg.k]
        /\ overridesFallback = [n \in Nodes |-> cfg.f]
        /\ overridesItemFallback = [n \in Nodes |-> cfg.g]
        /\ maxRetries = [n \in Nodes |-> cfg.m]
        /\ waitMs = [n \in Nodes |-> cfg.w]
    /\ currentRetry = [n \in Nodes |-> 0]
    /\ successors = [n \in Nodes |-> EmptySuccessors]
    /\ nextCalls = 0

\* what prep of a batch node may return: an array, or (as the default prep
\* does) something that is not one
BatchPrepVals == ArrayVals \cup {Undefined}

InitBatch ==
    InitBatchNodes /\ InitFlow /\ InitRest /\ InitAgent /\ InitPost /\ overlap = FALSE /\ writesContext = FALSE

NextBatch ==
    \/ \E r \in Calls : FlowRun(r)
    \/ \E r \in Calls, v \in BatchPrepVals : PrepReturns(r, v)
    \/ \E r \in Calls : PrepThrows(r)
    \/ \E r \in Calls : \E t \in tasks[r], v \in ItemVals : ItemReturns(r, t, v)
    \/ \E r \in Calls : \E t \in tasks[r] : ItemThrows(r, t)
    \/ \E r \in Calls : \E t \in tasks[r] : ItemSleepDone(r, t)
    \/ \E r \in Calls : \E t \in tasks[r], v \in ItemVals :
          ItemFallbackReturns(r, t, v)
    \/ \E r \in Calls : \E t \in tasks[r] :
          \E e \in {t.error, ItemFallbackError} : ItemFallbackThrows(r, t, e)
    \/ \E r \in Calls : BatchEmptyResolves(r)
    \/ \E r \in Calls : BatchNotArray(r)
    \/ \E r \in Calls : SleepDone(r)
    \/ \E r \in Calls, v \in ExecVals : FallbackReturns(r, v)
    \/ \E r \in Calls : \E e \in {obs[r].fallbackArgs[2], FallbackError} :
          FallbackThrows(r, e)
    \/ \E r \in Calls, v \in ReturnVals : PostReturns(r, v)
    \/ \E r \in Calls : PostThrows(r)
    \/ \E r \in Calls : FlowStep(r)
    \/ \E r \in Calls : FlowCatch(r)

SpecBatch == InitBatch /\ [][NextBatch]_vars

(* ------- specification of a flow on batch nodes that inherit post ------- *)
\* Sequential batch nodes whose classes do not define post, wired into a
\* graph beforehand
InitBatchDefault ==
    /\ \E cfg \in BatchConfigs :
        /\ cfg.k \in SequentialBatchKinds
        /\ cfg.k # "BatchNodeImpl" => cfg.g
        /\ kind = [n \in Nodes |-> cfg.k]
        /\ overridesFallback = [n \in Nodes |-> cfg.f]
        /\ overridesItemFallback = [n \in Nodes |-> cfg.g]
        /\ maxRetries = [n \in Nodes |-> cfg.m]
        /\ waitMs = [n \in Nodes |-> cfg.w]
    /\ overridesPost = [n \in Nodes |-> FALSE]
    /\ currentRetry = [n \in Nodes |-> 0]
    /\ successors \in ForwardGraphs
    /\ nextCalls = Cardinality({na \in Nodes \X ActionKeys :
                                   successors[na[1]][na[2]] # NoNode})
    /\ InitFlow /\ InitRest /\ InitAgent /\ overlap = FALSE /\ writesContext = FALSE

NextBatchDefault ==
    \/ \E r \in Calls : FlowRun(r)
    \/ \E r \in Calls, v \in BatchPrepVals : PrepReturns(r, v)
    \/ \E r \in Calls : PrepThrows(r)
    \/ \E r \in Calls : \E t \in tasks[r], v \in ItemVals : ItemReturns(r, t, v)
    \/ \E r \in Calls : \E t \in tasks[r] : ItemThrows(r, t)
    \/ \E r \in Calls : \E t \in tasks[r] : ItemSleepDone(r, t)
    \/ \E r \in Calls : \E t \in tasks[r], v \in ItemVals :
          ItemFallbackReturns(r, t, v)
    \/ \E r \in Calls : \E t \in tasks[r] :
          \E e \in {t.error, ItemFallbackError} : ItemFallbackThrows(r, t, e)
    \/ \E r \in Calls : BatchEmptyResolves(r)
    \/ \E r \in Calls : BatchNotArray(r)
    \/ \E r \in Calls : SleepDone(r)
    \/ \E r \in Calls, v \in ExecVals : FallbackReturns(r, v)
    \/ \E r \in Calls : \E e \in {obs[r].fallbackArgs[2], FallbackError} :
          FallbackThrows(r, e)
    \/ \E r \in Calls, v \in ReturnVals : PostReturns(r, v)
    \/ \E r \in Calls : FlowStep(r)
    \/ \E r \in Calls : FlowCatch(r)

SpecBatchDefault == InitBatchDefault /\ [][NextBatchDefault]_vars

(* ------------------------- the chart agent ----------------------------- *)
\* request bodies of POST /a2a/tasks/send, by what their input message holds
Payloads == {"no input", "no parts", "text part", "pie chart", "bar chart", "line chart"}

\* TaskSchema.safeParse: the input message is required, its parts may be empty
ValidateTask(p) == p # "no input"

NoChartError == "none"

\* the error createTask's try block raises for a payload, if any
ChartError(p) ==
    CASE p = "no parts" -> "Input message or parts are missing."
      [] p = "text part" -> "Invalid input part type or missing data. Expected DataPart."
      [] p = "pie chart" -> "Unsupported chartType"
      [] OTHER -> NoChartError

\* createTask(payload, baseUrl) called when Date.now() is now: the task it returns
CreateTask(p, now) ==
    LET taskId == TaskId(now)
    IN  [id |-> taskId,
         status |-> IF ChartError(p) = NoChartError THEN "completed" ELSE "failed",
         input |-> p,
         result |-> IF ChartError(p) = NoChartError
                    THEN <<"chartImage", ChartFilename(taskId)>>
                    ELSE <<"errorMessage", ChartError(p)>>]

\* fs.writeFileSync(chartFilePath, buffer) by the k-th call of createTask
WriteChart(f, task, k) ==
    IF task.status = "completed" THEN [f EXCEPT ![task.id] = k] ELSE f

\* getTask(id): a placeholder that finds nothing
GetTaskLogic(id) == Undefined

\* handleSendTask: POST /a2a/tasks/send
HandleSendTask(p) ==
    IF ~ValidateTask(p)
    THEN /\ response' = [route |-> "POST /tasks/send", id |-> Undefined, status |-> 400,
                         body |-> [error |-> "Invalid task"]]
         /\ UNCHANGED <<clock, issued, files>>
    ELSE /\ Len(issued) < MaxTasks
         /\ LET task == CreateTask(p, clock)
            IN  /\ issued' = Append(issued, task)
                /\ files' = WriteChart(files, task, Len(issued) + 1)
                /\ response' = [route |-> "POST /tasks/send", id |-> task.id,
                                status |-> 201, body |-> task]
         /\ UNCHANGED clock

\* handleGetTask: GET /a2a/tasks/:id
HandleGetTask(id) ==
    LET task == GetTaskLogic(id)
    IN  /\ response' = IF task = Undefined
                       THEN [route |-> "GET /tasks/:id", id |-> id, status |-> 404,
                             body |-> [error |-> "Task not found"]]
                       ELSE [route |-> "GET /tasks/:id", id |-> id, status |-> 200,
                             body |-> task]
        /\ UNCHANGED <<clock, issued, files>>

\* a millisecond passes
Tick ==
    /\ clock < MaxClock
    /\ clock' = clock + 1
    /\ UNCHANGED <<issued, files, response>>

agentFrame ==
    <<nodeConfig, flowConfig, batchVars, restVars, currentRetry, successors,
      nextCalls, currentNode, call, obs>>

\* the agent's process: it holds no flow; the engine's variables stay as loaded
InitAgentProcess ==
    /\ kind = [n \in Nodes |-> "BaseNodeImpl"]
    /\ overridesFallback = [n \in Nodes |-> FALSE]
    /\ overridesItemFallback = [n \in Nodes |-> FALSE]
    /\ maxRetries = [n \in Nodes |-> 1]
    /\ waitMs = [n \in Nodes |-> 0]
    /\ currentRetry = [n \in Nodes |-> 0]
    /\ successors = [n \in Nodes |-> EmptySuccessors]
    /\ nextCalls = 0
    /\ InitFlow /\ InitRest /\ InitAgent /\ InitPost /\ overlap = FALSE /\ writesContext = FALSE

NextAgent ==
    \/ \E p \in Payloads : HandleSendTask(p) /\ UNCHANGED agentFrame
    \/ \E id \in TaskIds : HandleGetTask(id) /\ UNCHANGED agentFrame
    \/ Tick /\ UNCHANGED agentFrame

SpecAgent == InitAgentProcess /\ [][NextAgent]_vars

(* ------------------------------ claims --------------------------------- *)
Min(a, b) == IF a < b THEN a ELSE b

\* invocation r is a run() of the flow whose current node's run has resolved
NodeResolved(r) == call[r].viaFlow /\ call[r].pc = "returned"

\* invocation r is a run() of the flow whose current node's run has rejected
NodeRejected(r) == call[r].viaFlow /\ call[r].pc = "threw"

\* C1: in one run(), once node N's run has completed with action A, the
\* driver terminates if A is undefined or N's own successor map has no edge
\* for A (no further node is entered), and otherwise the node it runs next is
\* exactly N's successor for A.
C1_Transition ==
    [][\A r \in Calls :
        (NodeResolved(r) /\ call'[r] # call[r]) =>
            LET N == call[r].self
                A == call[r].action
                edge == IF A \in DOMAIN successors[N] THEN successors[N][A] ELSE NoNode
            IN  IF A = Undefined \/ edge = NoNode
                THEN /\ call'[r].pc = "resolved"
                     /\ call'[r].self = N
                     /\ obs'[r] = obs[r]
                ELSE /\ call'[r].pc = "prep"
                     /\ call'[r].self = edge
                     /\ currentNode' = edge
                     /\ obs'[r].prepCalls = 1]_vars

\* a run() has followed an edge to a node other than the start node
C1_Witness ==
    \E r \in Calls :
        /\ call[r].viaFlow /\ call[r].pc = "prep"
        /\ call[r].self # startNode
        /\ currentNode = call[r].self

\* C2: when run() ends because the node returned no action, or an action
\* without a registered successor, run() resolves (it does not raise) and
\* currentNode is null at that point.
C2_GracefulEnd ==
    [][\A r \in Calls :
        (/\ NodeResolved(r)
         /\ call'[r] # call[r]
         /\ \/ call[r].action = Undefined
            \/ call[r].action \notin DOMAIN successors[call[r].self]
            \/ successors[call[r].self][call[r].action] = NoNode)
        => /\ call'[r].pc = "resolved"
           /\ call'[r].error = NoError
           /\ currentNode' = NoNode]_vars

\* a run() has ended on an action that has no successor, with currentNode null
C2_Witness ==
    \E r \in Calls :
        /\ call[r].pc = "resolved"
        /\ call[r].action # Undefined
        /\ currentNode = NoNode

\* C3: when a node's run raises an unrecovered error, run() rejects with that
\* same error and invokes no lifecycle phase of any node in doing so.
C3_ErrorPropagates ==
    [][\A r \in Calls :
        (NodeRejected(r) /\ call'[r] # call[r]) =>
            /\ call'[r].pc = "rejected"
            /\ call'[r].error = obs[r].origin
            /\ call'[r].error # NoError
            /\ call'[r].self = call[r].self
            /\ obs'[r] = obs[r]
            /\ currentRetry' = currentRetry]_vars

\* a run() has rejected with the error of an exec that exhausted its retries
C3_Witness ==
    \E r \in Calls :
        /\ call[r].pc = "rejected"
        /\ obs[r].execFails = 2
        /\ call[r].error = ExecError(2)

\* C4 (as claimed): after run() rejects, currentNode is null.
C4_NullAfterError ==
    \A r \in Calls : call[r].pc = "rejected" => currentNode = NoNode
\* invocation r is inside, or has finished, the run of a retry-capable node
RetryRun(r) == call[r].pc # "idle" /\ kind[call[r].self] = "NodeImpl"

\* C5: one retry-protected execute of a node with maxRetries = m makes at most
\* m attempts; a successful attempt is the last one and is followed by no
\* fallback; the fallback is invoked at most once, and exactly when all m
\* attempts have failed.
C5_BoundedAttempts ==
    \A r \in Calls :
        RetryRun(r) =>
            LET o == obs[r]
                m == maxRetries[call[r].self]
            IN  /\ o.execCalls <= m
                /\ o.execFails <= o.execCalls
                /\ o.fallbackCalls <= 1
                /\ (o.fallbackCalls = 1) <=> (o.execFails = m)
                /\ o.execDone => (o.execCalls = o.execFails + 1 /\ o.fallbackCalls = 0)
                /\ call[r].pc = "exec" => o.execCalls = o.execFails + 1
                /\ (call[r].pc \in {"post", "returned", "resolved"}) =>
                       (o.execDone \/ o.fallbackCalls = 1)

\* two attempts failed, the fallback was invoked once
C5_Witness ==
    \E r \in Calls :
        /\ RetryRun(r)
        /\ maxRetries[call[r].self] = 2
        /\ obs[r].execFails = 2
        /\ obs[r].fallbackCalls = 1

\* C6: when all maxRetries attempts fail the fallback is invoked with
\* (prepResult, error of the last attempt); a value it returns is the node's
\* execution result: it is what finalize receives, and the node's run does
\* not raise because of the failed execute.
C6_FallbackValue ==
    \A r \in Calls :
        (RetryRun(r) /\ obs[r].fallbackCalls = 1) =>
            LET o == obs[r]
            IN  /\ o.execFails = maxRetries[call[r].self]
                /\ ~o.execDone
                /\ o.fallbackArgs = <<o.prepRet, o.lastExecError>>
                /\ o.fallbackDone =>
                     /\ o.postCalls = 1
                     /\ o.postArgs[3] = o.fallbackRet
                     /\ call[r].execResult = o.fallbackRet
                     /\ call[r].pc \in {"post", "returned", "resolved", "threw", "rejected"}
                     /\ call[r].pc \in {"threw", "rejected"} => call[r].error = PostError

\* the fallback returned a value and the node's run resolved
C6_Witness ==
    \E r \in Calls :
        /\ RetryRun(r)
        /\ obs[r].fallbackDone
        /\ call[r].pc = "returned"

\* C7: a retry-capable node that keeps the default fallback raises, once all
\* maxRetries attempts have failed, the error of the failed execute that was
\* handed to the fallback, and its finalize is never invoked.
C7_DefaultFallbackRethrows ==
    \A r \in Calls :
        (/\ RetryRun(r)
         /\ ~overridesFallback[call[r].self]
         /\ obs[r].execFails = maxRetries[call[r].self]) =>
            /\ call[r].pc \in {"threw", "rejected"}
            /\ obs[r].fallbackCalls = 1
            /\ call[r].error = obs[r].lastExecError
            /\ call[r].error = obs[r].fallbackArgs[2]
            /\ call[r].error = ExecError(maxRetries[call[r].self])
            /\ obs[r].postCalls = 0

\* the default fallback has re-raised the error of the second attempt
C7_Witness ==
    \E r \in Calls :
        /\ RetryRun(r)
        /\ ~overridesFallback[call[r].self]
        /\ obs[r].fallbackCalls = 1
        /\ call[r].error = ExecError(2)

\* C8: the retry loop delays exactly once after each failed attempt that is
\* not the last allowed one, and nowhere else: not before the fallback, not
\* after a success, and never when waitMs = 0.
C8_DelayBetweenAttempts ==
    \A r \in Calls :
        RetryRun(r) =>
            LET o == obs[r]
                n == call[r].self
            IN  /\ o.sleeps = IF waitMs[n] > 0
                              THEN Min(o.execFails, maxRetries[n] - 1)
                              ELSE 0
                /\ call[r].pc = "sleep" =>
                     /\ o.sleeps = o.execFails
                     /\ o.execCalls = o.execFails
                     /\ o.fallbackCalls = 0

\* one delay was taken, then the last attempt failed and the fallback ran
C8_Witness ==
    \E r \in Calls :
        /\ RetryRun(r)
        /\ waitMs[call[r].self] > 0
        /\ obs[r].sleeps = 1
        /\ obs[r].execFails = 2
        /\ obs[r].fallbackCalls = 1

\* C9: in one node run prepare is invoked exactly once and finalize at most
\* once; when prepare fails neither execute, the fallback nor finalize is
\* invoked, and the failure of prepare or of finalize is the error the run
\* raises, whatever maxRetries is.
C9_NoStructuralRetry ==
    \A r \in Calls :
        call[r].pc # "idle" =>
            LET o == obs[r]
            IN  /\ o.prepCalls = 1
                /\ o.postCalls <= 1
                /\ o.origin = PrepError =>
                     /\ o.execCalls = 0 /\ o.fallbackCalls = 0 /\ o.postCalls = 0
                     /\ call[r].pc \in {"threw", "rejected"}
                     /\ call[r].error = PrepError
                /\ o.origin = PostError =>
                     /\ o.postCalls = 1
                     /\ call[r].pc \in {"threw", "rejected"}
                     /\ call[r].error = PostError
                /\ (call[r].pc = "threw" /\ ~o.prepDone) => o.origin = PrepError

\* prepare failed in a node that allows two attempts
C9_Witness ==
    \E r \in Calls :
        /\ call[r].pc = "threw"
        /\ obs[r].origin = PrepError
        /\ maxRetries[call[r].self] = 2

\* C10: a node's run goes prepare, execute, finalize, each phase starting
\* after the previous one completed; finalize receives the shared context,
\* prepare's result and execute's result, and run returns what finalize
\* returned.
C10_LifecycleOrder ==
    \A r \in Calls :
        call[r].pc # "idle" =>
            LET o == obs[r]
                c == call[r]
            IN  /\ c.pc = "prep" <=> ~o.prepDone /\ o.origin # PrepError
                /\ o.execCalls > 0 => o.prepDone
                /\ o.postCalls > 0 => (o.execDone \/ o.fallbackDone)
                /\ c.pc \in {"exec", "sleep", "fallback"} =>
                     (o.prepDone /\ ~o.execDone /\ ~o.fallbackDone /\ o.postCalls = 0)
                /\ o.postCalls > 0 =>
                     o.postArgs = <<sharedState, o.prepRet,
                                    IF o.fallbackDone THEN o.fallbackRet ELSE o.execRet>>
                /\ c.pc \in {"returned", "resolved"} =>
                     (o.postCalls = 1 /\ c.action = o.postRet)

\* finalize returned a value other than execute's result, and run returned it
C10_Witness ==
    \E r \in Calls :
        /\ call[r].pc = "returned"
        /\ obs[r].postRet # obs[r].execRet
        /\ obs[r].execDone
        /\ call[r].action = obs[r].postRet

\* C11: within one run() at most one node's lifecycle is in progress: while
\* a node is inside prepare, execute or finalize the driver does nothing, and
\* the prepare of the next node begins only in the step that consumes the
\* completed finalize of the previous one.
C11_OneNodeAtATime ==
    [][\A r \in Calls :
        /\ (call[r].viaFlow /\ call[r].pc \in InNode) =>
              /\ call'[r].pc \in InNode \cup {"returned", "threw"}
              /\ call'[r].self = call[r].self
              /\ call'[r].pc = "prep" => call[r].pc = "prep"
        /\ (call'[r].pc = "prep" /\ call[r].pc # "prep") =>
              /\ \A q \in Calls : call[q].pc \notin InNode
              /\ \/ ~Active(r)
                 \/ /\ call[r].pc = "returned"
                    /\ obs[r].postCalls = 1
                    /\ call[r].action = obs[r].postRet]_vars

\* the second node of a flow is in its prepare after the first one finalized
C11_Witness ==
    \E r \in Calls :
        /\ call[r].viaFlow /\ call[r].pc = "prep"
        /\ call[r].self # startNode
        /\ obs[r].prepCalls = 1 /\ obs[r].postCalls = 0

(* --------------------------- batch execution --------------------------- *)
\* the class of the batch node the flow runs
BatchKind == kind[startNode]

\* C12: in one call of exec of a sequential batch node, when an item's
\* attempts are exhausted and its item fallback raises, exec rejects with
\* that error and execItem is never invoked for an item after the failing one
C12_FailFast ==
    \A r \in Calls : \A t \in tasks[r] :
        (/\ BatchKind \in SequentialBatchKinds
         /\ t.pc = "rejected" /\ t.fb = "threw")
        => /\ rounds[r][t.round] = t.rejection
           /\ \A x \in tasks[r] : x.round = t.round => x.item <= t.item

C12_Witness ==
    \E r \in Calls : \E t \in tasks[r] :
        /\ BatchKind \in SequentialBatchKinds
        /\ t.pc = "rejected" /\ t.fb = "threw" /\ t.item = 1
        /\ IsArray(call[r].prepResult) /\ ArrayLength(call[r].prepResult) = 2
        /\ rounds[r][t.round] = t.rejection

\* C13: a sequential batch processes the items in index order without
\* overlap: the first attempt of item i+1 starts only after the execution of
\* item i resolved
C13_StrictOrder ==
    \A r \in Calls :
        BatchKind \in SequentialBatchKinds
        => /\ \A t \in tasks[r] :
                t.item > 1 => \E p \in tasks[r] : /\ p.round = t.round
                                                  /\ p.item = t.item - 1
                                                  /\ p.pc = "resolved"
           /\ \A t, x \in tasks[r] : InFlight(t) /\ InFlight(x) => t = x

C13_Witness ==
    \E r \in Calls : \E t, p \in tasks[r] :
        /\ BatchKind \in SequentialBatchKinds
        /\ t.item = 2 /\ t.pc = "execItem" /\ t.itemRetry = 0
        /\ p.round = t.round /\ p.item = 1 /\ p.pc = "resolved"

\* the number of times execItem was invoked by the item executions in T
RECURSIVE ExecItemCalls(_)
ExecItemCalls(T) ==
    IF T = {} THEN 0
    ELSE LET t == CHOOSE x \in T : TRUE
         IN  (t.itemRetry + 1) + ExecItemCalls(T \ {t})

\* C14: during one run of a batch node with maxRetries = m, execItem is
\* invoked at most m times for any single item
C14_AtMostMaxRetriesPerItem ==
    \A r \in Calls : \A i \in 1..MaxItems :
        ExecItemCalls({t \in tasks[r] : t.item = i}) <= maxRetries[startNode]

\* C15 as stated: in every batch flavor, an item whose attempts are
\* exhausted and whose execItemFallback returns a value counts as succeeded
C15_FallbackValueSucceeds ==
    \A r \in Calls : \A t \in tasks[r] :
        t.fb = "returned" => t.pc = "resolved"

\* C15 amended: execItemFallback is invoked exactly when the item's last
\* attempt failed, with that attempt's error; in BatchNodeImpl a returned
\* value makes the item succeed and the batch proceeds, in the async
\* flavors the value is dropped and the item fails with the execItem error
C15_ItemFallback ==
    \A r \in Calls : \A t \in tasks[r] :
        /\ t.fb # "none"
           => /\ t.itemRetry = maxRetries[startNode] - 1
              /\ t.error = ItemError(t.round, t.item, maxRetries[startNode])
        /\ t.pc = "rejected" => t.fb \in {"returned", "threw"}
        /\ t.fb = "returned"
           => IF BatchKind = "BatchNodeImpl"
              THEN /\ t.pc = "resolved"
                   /\ \/ rounds[r][t.round] = Resolved
                      \/ \E x \in tasks[r] : /\ x.round = t.round
                                             /\ x.item = t.item + 1
              ELSE t.pc = "rejected" /\ t.rejection = t.error

C15_Witness ==
    \E r \in Calls : \E t, x \in tasks[r] :
        /\ BatchKind = "BatchNodeImpl"
        /\ t.fb = "returned" /\ t.pc = "resolved" /\ t.item = 1
        /\ x.round = t.round /\ x.item = 2

TasksOf(r, k) == {t \in tasks[r] : t.round = k}

\* C17: in a parallel batch, the first execItem attempt of every item is
\* started by the call of exec before any item's completion is awaited
C17_FanOut ==
    \A r \in Calls : \A k \in 1..Len(rounds[r]) :
        (BatchKind = "AsyncParallelBatchNodeImpl" /\ IsArray(call[r].prepResult))
        => {t.item : t \in TasksOf(r, k)} = 1..ArrayLength(call[r].prepResult)

C17_Witness ==
    \E r \in Calls : \E t, x \in tasks[r] :
        /\ BatchKind = "AsyncParallelBatchNodeImpl"
        /\ t.round = x.round /\ t.item = 1 /\ x.item = 2
        /\ t.pc = "execItem" /\ t.itemRetry = 0
        /\ x.pc = "execItem" /\ x.itemRetry = 0

\* C18: a call of exec of a parallel batch resolves only when the execution
\* of every item resolved, never while one is in flight or has failed
C18_JoinAll ==
    \A r \in Calls : \A k \in 1..Len(rounds[r]) :
        (BatchKind = "AsyncParallelBatchNodeImpl" /\ rounds[r][k] = Resolved)
        => /\ \A t \in TasksOf(r, k) : t.pc = "resolved"
           /\ IsArray(call[r].prepResult)
              => \A i \in 1..ArrayLength(call[r].prepResult) :
                    \E t \in TasksOf(r, k) : t.item = i

C18_Witness ==
    \E r \in Calls : \E k \in 1..Len(rounds[r]) : \E t, x \in TasksOf(r, k) :
        /\ BatchKind = "AsyncParallelBatchNodeImpl"
        /\ rounds[r][k] = Resolved
        /\ t.item = 1 /\ x.item = 2 /\ x.itemRetry = 1
        /\ t.pc = "resolved" /\ x.pc = "resolved"

\* C19: in a parallel batch, the call of exec rejects with the error of the
\* item that fails first in time, at the moment it fails; the siblings that
\* are in flight are not canceled, and no later outcome changes the result
C19_FirstFailureWins ==
    [][\A r \in Calls :
        BatchKind = "AsyncParallelBatchNodeImpl"
        => /\ \A k \in 1..Len(rounds[r]) :
                (rounds[r][k] # Pending /\ k <= Len(rounds'[r]))
                => rounds'[r][k] = rounds[r][k]
           /\ \A t \in tasks'[r] :
                (/\ t.pc = "rejected" /\ t \notin tasks[r]
                 /\ t.round <= Len(rounds[r])
                 /\ rounds[r][t.round] = Pending)
                => /\ rounds'[r][t.round] = t.rejection
                   /\ \A x \in tasks[r] :
                        (x.round = t.round /\ x.item # t.item /\ InFlight(x))
                        => x \in tasks'[r]]_vars

C19_Witness ==
    \E r \in Calls : \E t, x \in tasks[r] :
        /\ BatchKind = "AsyncParallelBatchNodeImpl"
        /\ t.round = x.round /\ t.item = 2 /\ x.item = 1
        /\ t.pc = "rejected" /\ rounds[r][t.round] = t.rejection
        /\ x.pc = "rejected" /\ x.rejection # rounds[r][t.round]

\* C20: finalize (post) of a parallel batch node never starts while an
\* item execution of that node is still in flight
C20_JoinedBeforeFinalize ==
    \A r \in Calls :
        (BatchKind = "AsyncParallelBatchNodeImpl" /\ call[r].pc = "post")
        => Quiescent(r)

\* C21: in every batch flavor, when prep's result is not an array, each call
\* of exec fails with the configuration error and neither execItem nor
\* execItemFallback is invoked for any item
C21_NotArrayRejected ==
    \A r \in Calls :
        (/\ kind[startNode] \in BatchKinds
         /\ Len(rounds[r]) > 0
         /\ ~IsArray(call[r].prepResult))
        => /\ tasks[r] = {}
           /\ \A k \in 1..Len(rounds[r]) :
                rounds[r][k] \in {Pending, NotArrayError}
           /\ call[r].pc \in {"sleep", "fallback", "threw", "rejected"}
              => rounds[r][Len(rounds[r])] = NotArrayError

C21_Witness ==
    \E r \in Calls :
        /\ kind[startNode] = "AsyncParallelBatchNodeImpl"
        /\ call[r].pc = "rejected" /\ call[r].error = NotArrayError
        /\ ~IsArray(call[r].prepResult)
        /\ tasks[r] = {} /\ Len(rounds[r]) = 2

\* C22: in every batch flavor, when all items succeed (the empty array
\* included) the call of exec resolves with undefined: the items' results
\* are not part of what post is handed
C22_ResolvesWithUndefined ==
    \A r \in Calls :
        (/\ kind[startNode] \in BatchKinds
         /\ Len(rounds[r]) > 0
         /\ rounds[r][Len(rounds[r])] = Resolved)
        => /\ call[r].execResult = Undefined
           /\ obs[r].execRet = Undefined
           /\ obs[r].postArgs = <<call[r].shared, call[r].prepResult, Undefined>>

C22_Witness ==
    \E r \in Calls : \E t, x \in tasks[r] :
        /\ kind[startNode] \in BatchKinds
        /\ rounds[r][Len(rounds[r])] = Resolved
        /\ t.round = Len(rounds[r]) /\ x.round = t.round
        /\ t.item = 1 /\ x.item = 2
        /\ t.result = "next" /\ x.result = "next"
        /\ call[r].pc = "post" /\ call[r].execResult = Undefined

(* ------------------------ construction of a flow ----------------------- *)
\* C23 as stated: a freshly constructed flow has currentNode equal to its
\* start node
C23_FreshAtStartNode ==
    built.outcome = "flow" => built.driver.currentNode = built.driver.startNode

\* C23 amended: a freshly constructed flow has currentNode = null, whatever
\* its start node; no node is current before run() or reset()
C23_FreshIsNull ==
    built.outcome = "flow"
    => /\ built.driver.currentNode = NoNode
       /\ built.driver.startNode \in Nodes

C23_Witness ==
    /\ built.outcome = "flow" /\ built.flavor = "base"
    /\ built.driver.startNode = 2 /\ built.driver.currentNode = NoNode

\* the flavor a node class is declared for
Capability(k) ==
    CASE k \in {"BaseNodeImpl", "NodeImpl"} -> "base"
      [] k = "AsyncNodeImpl" -> "async"
      [] k = "BatchNodeImpl" -> "batch"
      [] k = "AsyncBatchNodeImpl" -> "asyncBatch"
      [] k = "AsyncParallelBatchNodeImpl" -> "asyncParallelBatch"

\* the node classes each flavored build method lets through
AcceptedKinds(f) ==
    CASE f = "base" -> AllNodeKinds
      [] f = "async" -> {"AsyncNodeImpl", "AsyncBatchNodeImpl",
                         "AsyncParallelBatchNodeImpl"}
      [] f = "batch" -> {"BatchNodeImpl"}
      [] f = "asyncBatch" -> {"AsyncBatchNodeImpl", "AsyncParallelBatchNodeImpl"}
      [] f = "asyncParallelBatch" -> {"AsyncParallelBatchNodeImpl"}

BuiltFromBoth == built.startNode # NoNode /\ built.sharedState # Undefined

\* C25 as stated: a flavored build method raises the configuration error
\* whenever the start node's capability is not the requested flavor
C25_MismatchRejected ==
    (/\ built.flavor \in Flavors \ {"base"}
     /\ BuiltFromBoth
     /\ Capability(kind[built.startNode]) # built.flavor)
    => built.outcome = "wrong start node"

\* C25 amended: a flavored build method raises the configuration error,
\* creates no flow and runs no node exactly when the start node is not an
\* instance of the flavor's node class; an instance of a subclass passes
C25_NotInstanceRejected ==
    (built.flavor \in Flavors \ {"base"} /\ BuiltFromBoth)
    => /\ built.outcome = "wrong start node"
          <=> kind[built.startNode] \notin AcceptedKinds(built.flavor)
       /\ built.outcome = "wrong start node" => built.driver = NoDriver
       /\ \A r \in Calls : call[r].pc = "idle"

C25_Witness ==
    /\ built.flavor = "asyncParallelBatch" /\ BuiltFromBoth
    /\ kind[built.startNode] = "NodeImpl"
    /\ built.outcome = "wrong start node" /\ built.driver = NoDriver

\* C26: every build method raises the configuration error unless both the
\* start node and the shared state are set, in whatever order the setters
\* ran; when both are set and the start node passes the class test the
\* method returns a flow of its flavor on that start node and that context
C26_BuildNeedsBoth ==
    [][built' # built
       => /\ built'.startNode = builder.startNode
          /\ built'.sharedState = builder.sharedState
          /\ built'.outcome = "not set"
             <=> (builder.startNode = NoNode \/ builder.sharedState = Undefined)
          /\ (/\ builder.startNode # NoNode /\ builder.sharedState # Undefined
              /\ kind[builder.startNode] \in AcceptedKinds(built'.flavor))
             => /\ built'.outcome = "flow"
                /\ built'.driver.class = FlowClass(built'.flavor)
                /\ built'.driver.startNode = builder.startNode
                /\ built'.driver.sharedState = builder.sharedState
          /\ built'.outcome # "flow" => built'.driver = NoDriver]_vars

C26_Witness ==
    /\ built.flavor = "asyncBatch" /\ built.outcome = "flow"
    /\ built.driver.class = "ConcreteAsyncBatchFlow"
    /\ built.driver.startNode = 2 /\ built.driver.sharedState = "ctxB"

C27_OverwriteWarnsOnce ==
    [][nextCalls' = nextCalls + 1
       => LET n == lastNext'.receiver
              a == IF lastNext'.action = Undefined THEN DEFAULT_ACTION
                   ELSE lastNext'.action
          IN  /\ successors' = [successors EXCEPT ![n][a] = lastNext'.node]
              /\ lastNext'.warnings = (IF successors[n][a] # NoNode THEN 1 ELSE 0)]_vars

C27_Witness ==
    /\ nextCalls = 2 /\ lastNext.warnings = 1
    /\ lastNext.node = 2 /\ lastNext.action = "next"
    /\ successors[lastNext.receiver]["next"] = 2
    /\ successors[lastNext.receiver][DEFAULT_ACTION] = NoNode
    /\ \A k \in Nodes \ {lastNext.receiver} : successors[k] = EmptySuccessors

\* C28: next(node, action) returns the node it registered, not the
\* receiver; without an action the edge is stored under DEFAULT_ACTION and
\* under no string, and a string action a node returns never follows an
\* edge stored under DEFAULT_ACTION
C28_NextReturnsNode ==
    [][/\ nextCalls' = nextCalls + 1
          => /\ lastNext'.value = lastNext'.node
             /\ lastNext'.action = Undefined
                => /\ successors'[lastNext'.receiver][DEFAULT_ACTION] = lastNext'.node
                   /\ \A a \in ActionKeys \ {DEFAULT_ACTION} :
                        successors'[lastNext'.receiver][a]
                            = successors[lastNext'.receiver][a]
       /\ \A r \in Calls :
            (/\ call[r].pc = "returned" /\ call[r].viaFlow
             /\ call'[r] # call[r]
             /\ currentNode # NoNode
             /\ call[r].action \in StringActions
             /\ \A a \in ActionKeys :
                    successors[currentNode][a] # NoNode => a = DEFAULT_ACTION)
            => currentNode' = NoNode /\ call'[r].pc = "resolved"]_vars

\* a.next(b).next(c): the second call's receiver is what the first returned
C28_Witness ==
    /\ nextCalls = 2
    /\ successors[1][DEFAULT_ACTION] = 2
    /\ lastNext.receiver = 2 /\ lastNext.action = Undefined
    /\ lastNext.node = 1 /\ lastNext.value = 1
    /\ successors[2][DEFAULT_ACTION] = 1

(* ------------------------------ maxRetries ----------------------------- *)
\* C29: whatever integer the constructor is given, 0 and negative ones
\* included, the node's maxRetries is at least 1 (the argument itself when
\* that is at least 1), so exec is attempted before any fallback; with
\* maxRetries = 1 there is one attempt, and its failure goes to the fallback
C29_AtLeastOneAttempt ==
    /\ \A a \in RetryArgs :
        CoerceMaxRetries(a) >= 1 /\ (a >= 1 => CoerceMaxRetries(a) = a)
    /\ \A n \in Nodes : maxRetries[n] >= 1
    /\ \A r \in Calls :
        /\ obs[r].fallbackCalls > 0 => obs[r].execCalls >= 1
        /\ call[r].error # LoopError
        /\ (call[r].self # NoNode /\ maxRetries[call[r].self] = 1)
           => /\ obs[r].execCalls <= 1
              /\ (kind[call[r].self] = "NodeImpl" /\ obs[r].execFails = 1)
                 => obs[r].fallbackCalls = 1

C29_Witness ==
    /\ CoerceMaxRetries(0) = 1 /\ CoerceMaxRetries(-1) = 1
    /\ \E r \in Calls :
        /\ call[r].self # NoNode
        /\ kind[call[r].self] = "NodeImpl" /\ maxRetries[call[r].self] = 1
        /\ obs[r].execCalls = 1 /\ obs[r].execFails = 1
        /\ obs[r].fallbackCalls = 1 /\ obs[r].fallbackDone

(* ---------------------------- shared context -------------------------- *)
\* the marks of the lifecycle phases that complete in a step on context x
PhasesCompleted(x) ==
    {<<call[r].self, "prep">> :
        r \in {q \in Calls : /\ call[q].pc = "prep" /\ call[q].shared = x
                              /\ call'[q].pc \notin {"prep", "threw"}}}
    \cup
    {<<call[r].self, "post">> :
        r \in {q \in Calls : /\ call[q].pc = "post" /\ call[q].shared = x
                              /\ call'[q].pc = "returned"}}

\* C30: the driver hands its one sharedState object to every node it runs,
\* and no step of the driver changes a context: a context changes only by
\* the writes of a prep or post that completes, so when run() rejects the
\* context holds exactly the writes of the phases that ran before
C30_DriverLeavesContext ==
    [][ /\ \A x \in ContextObjects : heap'[x] = heap[x] \cup PhasesCompleted(x)
        /\ \A r \in Calls :
              (call'[r].viaFlow /\ call'[r].pc # "idle")
                 => call'[r].shared = sharedState ]_vars

C30_Witness ==
    /\ writesContext /\ sharedState = "ctxB"
    /\ \E r \in Calls :
        /\ call[r].pc = "rejected" /\ call[r].self = 2 /\ call[r].shared = "ctxB"
        /\ heap["ctxB"] = {<<1, "prep">>, <<1, "post">>, <<2, "prep">>}
    /\ heap["ctxA"] = {}

(* ------------------------------ the agent ------------------------------ *)
\* C31: a GET /a2a/tasks/:id for the id of a task that POST /a2a/tasks/send
\* returned answers 200 with that task (its status and result)
C31_CreatedTaskRetrievable ==
    \A k \in 1..Len(issued) :
        (response.route = "GET /tasks/:id" /\ response.id = issued[k].id)
            => /\ response.status = 200
               /\ \E j \in 1..Len(issued) :
                     /\ issued[j].id = response.id
                     /\ response.body = issued[j]

\* C40: any two createTask calls return tasks with distinct ids, and those
\* that write a chart write distinct files, also within one millisecond
C40_DistinctIdsAndFiles ==
    \A j, k \in 1..Len(issued) :
        j # k => /\ issued[j].id # issued[k].id
                 /\ (issued[j].status = "completed" /\ issued[k].status = "completed")
                       => issued[j].result # issued[k].result

(* --------------------------- overlapping use --------------------------- *)
\* C32: when run() calls on one driver overlap, no call rejects with an error
\* of the driver's own (the TypeError of reading successors of a null
\* currentNode): a call that rejects does so with an error a phase raised
C32_NoDriverError ==
    \A r \in Calls :
        call[r].pc = "rejected"
            => call[r].error \in {PrepError, PostError, FallbackError, LoopError}
                                 \cup {ExecError(i) : i \in 1..AttemptCap}

\* C33: with a single run() in progress (no second run() ever made), the
\* action the run's node returns is looked up in that node's own successor
\* map, also when reset() was called while the node was running
C33_LookupInOwnMap ==
    [][\A r \in Calls :
          (/\ call[r].pc = "returned" /\ call[r].viaFlow
           /\ call[r].action # Undefined
           /\ \A q \in Calls \ {r} : call[q].pc = "idle"
           /\ call'[r] # call[r])
          => IF GetSuccessor(call[r].self, call[r].action) = NoNode
             THEN call'[r].pc = "resolved"
             ELSE /\ call'[r].pc = "prep"
                  /\ call'[r].self = GetSuccessor(call[r].self, call[r].action)]_vars

\* C34: when run() calls overlap on one retry-capable node, each call makes
\* at most maxRetries attempts of exec and never ends with the
\* 'finished loop unexpectedly' error
C34_IndependentRetries ==
    \A r \in Calls :
        (call[r].self # NoNode /\ kind[call[r].self] = "NodeImpl")
            => /\ obs[r].execCalls <= maxRetries[call[r].self]
               /\ call[r].error # LoopError

(* ----------------------- parallel batch under retry -------------------- *)
\* C35: within one run of a parallel batch node, at most one execItem
\* invocation per item position is in flight at any time, also after the
\* node-level retry has called exec again
C35_OneInFlightPerItem ==
    \A r \in Calls :
        (call[r].self # NoNode /\ kind[call[r].self] = "AsyncParallelBatchNodeImpl")
            => \A t, u \in tasks[r] :
                  (t.item = u.item /\ t.pc = "execItem" /\ u.pc = "execItem") => t = u

(* ----------------------- how the retry wrappers end -------------------- *)
\* C36 as stated: in a single invocation every retry wrapper ends with a
\* successful attempt's result, with the value its fallback returned or with
\* the error its fallback raised, never with a 'finished loop unexpectedly'
\* error
C36_EndsByAttemptOrFallback ==
    \A r \in Calls :
        /\ call[r].error # LoopError
        /\ \A t \in tasks[r] :
              /\ t.rejection # ItemLoopError
              /\ t.pc = "resolved" => t.fb \in {"none", "returned"}
              /\ t.pc = "rejected" => t.fb = "threw"

\* C36: in a single invocation no retry wrapper ends with a 'finished loop
\* unexpectedly' error, whatever maxRetries was given and however the
\* attempts go.  A wrapper that resolves does so with an attempt's result or,
\* in BatchNodeImpl, with the value the item fallback returned; one that
\* rejects does so with the error its fallback raised or, in the async item
\* wrapper, with the last attempt's error after the item fallback returned
C36_LoopErrorUnreachable ==
    \A r \in Calls :
        /\ call[r].error # LoopError /\ obs[r].origin # LoopError
        /\ \A k \in 1..Len(rounds[r]) : rounds[r][k] \notin {LoopError, ItemLoopError}
        /\ \A t \in tasks[r] :
              /\ t.rejection # ItemLoopError
              /\ t.pc = "resolved"
                   => \/ t.fb = "none"
                      \/ t.fb = "returned" /\ kind[call[r].self] = "BatchNodeImpl"
              /\ t.pc = "rejected"
                   => \/ t.fb = "threw"
                      \/ /\ t.fb = "returned" /\ kind[call[r].self] \in AsyncBatchKinds
                         /\ t.rejection = t.error
                         /\ t.itemRetry = maxRetries[call[r].self] - 1

C36_Witness ==
    \E r \in Calls :
        /\ call[r].self # NoNode
        /\ kind[call[r].self] = "AsyncBatchNodeImpl" /\ maxRetries[call[r].self] = 2
        /\ obs[r].execCalls = 2 /\ obs[r].fallbackCalls = 1
        /\ \E t \in tasks[r] :
              /\ t.pc = "rejected" /\ t.fb = "returned" /\ t.itemRetry = 1
              /\ t.rejection = t.error

(* ------------------------------ termination ---------------------------- *)
\* C37: when every phase completes and the graph lets no path visit a node
\* twice, a run() in progress eventually settles (resolves or rejects), and
\* every transition of the run enters a node the run has not run before
C37_RunSettles ==
    /\ \A r \in Calls : Active(r) ~> call[r].pc \in {"resolved", "rejected"}
    /\ [][\A r \in Calls :
            (Active(r) /\ call'[r].pc = "prep" /\ call[r].pc # "prep")
                => call'[r].self > call[r].self]_vars

C37_Witness ==
    \E r \in Calls :
        /\ call[r].pc = "resolved" /\ call[r].self = NumNodes
        /\ call[r].action = "next"
        /\ successors[1]["next"] = NumNodes

(* ------------------------------ run() again ---------------------------- *)
\* C38: whenever run() is called (the driver idle, or left by an earlier run
\* at null, at the node that failed, or at the start node by reset()), the
\* node it runs first is the start node
C38_RunBeginsAtStart ==
    [][\A r \in Calls :
          (~Active(r) /\ call'[r].pc = "prep")
              => /\ call'[r].self = startNode /\ call'[r].viaFlow
                 /\ currentNode' = startNode
                 /\ obs'[r].prepCalls = 1 /\ ~obs'[r].prepDone]_vars

C38_Witness ==
    \E r \in Calls :
        /\ call[r].pc = "prep" /\ call[r].self = startNode
        /\ currentNode = startNode /\ obs[r].prepCalls = 1
        /\ writesContext
        /\ heap[sharedState] = {<<1, "prep">>, <<1, "post">>, <<2, "prep">>}

(* ----------------------- batch node, inherited post -------------------- *)
\* C39: a sequential batch node that inherits post and whose exec succeeded
\* returns no action, and the driver then ends the run at that node with
\* currentNode null, without running any successor registered on the node
C39_BatchEndsFlow ==
    /\ [](\A r \in Calls :
            (/\ call[r].pc = "returned" /\ obs[r].execDone
             /\ kind[call[r].self] \in SequentialBatchKinds
             /\ ~overridesPost[call[r].self])
                => call[r].action = Undefined)
    /\ [][\A r \in Calls :
            (/\ call[r].pc = "returned" /\ call[r].viaFlow /\ obs[r].execDone
             /\ kind[call[r].self] \in SequentialBatchKinds
             /\ ~overridesPost[call[r].self]
             /\ call'[r] # call[r])
                => /\ call'[r].pc = "resolved" /\ call'[r].self = call[r].self
                   /\ currentNode' = NoNode]_vars

C39_Witness ==
    \E r \in Calls :
        /\ call[r].pc = "resolved" /\ call[r].self = 1 /\ obs[r].execDone
        /\ kind[1] \in SequentialBatchKinds /\ ~overridesPost[1]
        /\ successors[1]["next"] = 2 /\ successors[1][DEFAULT_ACTION] = 2
        /\ call[r].prepResult = ArrayOfLength(MaxItems)
        /\ \A t \in tasks[r] : t.pc = "resolved" /\ t.result = "next"
        /\ Cardinality(tasks[r]) = MaxItems
        /\ currentNode = NoNode

====
